---- MODULE Spec2Model ----
(***************************************************************************)
(* Model of the PostgresDatabase storage layer (src/db/postgres.rs).       *)
(*                                                                         *)
(* The four tables are sequences of rows.  Every operation of the Database *)
(* trait is a unit of work run by the worker pool: it acquires a           *)
(* connection, runs its SQL statements one after the other (each statement *)
(* is one atomic step of the backend) and releases the connection when the *)
(* closure ends.  Units of different callers interleave between statements.*)
(*                                                                         *)
(* github_users, users and tokens are bags of rows (a table has no row     *)
(* order); transactions is the sequence of rows in the order of their id.  *)
(*                                                                         *)
(* The pool's capacity is fixed when the instance is built; callers of the *)
(* model see every capacity from 1 to MaxPool.  instance tells whether     *)
(* with_manager has built the storage instance.                            *)
(*                                                                         *)
(* Spec runs two concurrent units of work over a small set of requests;    *)
(* SpecSeq runs one caller that awaits each operation, over the full set.  *)
(* SpecBuild starts before with_manager has built the instance, SpecDrop   *)
(* lets callers drop the futures they hold, and SpecFair is Spec's two     *)
(* units under fair scheduling of the worker threads.                      *)
(***************************************************************************)
EXTENDS Integers, Sequences, FiniteSets, Bags, TLC

\* ------------------------------------------------------------------ bounds
MaxLedger == 2
MaxPool == 2
MaxLimit == 3
Units == {"w1", "w2"}
Ids == {"u1", "u2"}
Tokens == {"t1", "t2"}
Amounts == {-1, 2}
Reasons == {"r"}
\* A datetime is a number of ticks; time_sec keeps whole seconds.  The two
\* datetimes fall in the same second.
TicksPerSec == 2
Datetimes == {TicksPerSec, TicksPerSec + 1}

VARIABLES github_users, users, tokens, transactions, pc, req, result, conn, capacity, instance

vars == <<github_users, users, tokens, transactions, pc, req, result, conn, capacity, instance>>

tables == <<github_users, users, tokens, transactions>>

\* ------------------------------------------------------------ plain values
NULL == <<>>

Some(x) == <<x>>

Coalesce(x, d) == IF x = NULL THEN d ELSE x[1]

Ok(v) == [kind |-> "Ok", val |-> v]

Err(e) == [kind |-> "Err", err |-> e]

NoResult == [kind |-> "none"]

ConnectionPoolError == [type |-> "ConnectionPoolError"]

PostgresError == [type |-> "PostgresError"]

UnknownUser(id) == [type |-> "UnknownUser", user_id |-> id]

User(id, name, bal) == [user_id |-> id, display_name |-> name, balance |-> bal]

Transaction(sr, se, a, dt, rs) == [shafter |-> sr, shaftee |-> se, amount |-> a, datetime |-> dt, reason |-> rs]

Range(s) == {s[i] : i \in DOMAIN s}

\* the rows of a table that satisfy a WHERE clause
Where(table, column, value) == [r \in {x \in BagToSet(table) : x[column] = value} |-> table[r]]

\* the rows of a table that a WHERE clause leaves out
WhereNot(table, column, value) == [r \in {x \in BagToSet(table) : x[column] # value} |-> table[r]]

\* INSERT of one row
Insert(table, row) == table (+) SetToBag({row})

\* every order in which a query may return the rows of a bag
RowOrders(table) == {s \in [1..BagCardinality(table) -> BagToSet(table)] : \A r \in BagToSet(table) : Cardinality({i \in DOMAIN s : s[i] = r}) = table[r]}

\* rows.iter().next()
FirstRow(rows) == IF rows = <<>> THEN NULL ELSE Some(Head(rows))

\* DateTime::timestamp(): whole seconds since the epoch
Timestamp(dt) == dt \div TicksPerSec

\* chrono::Utc.timestamp(secs, 0)
UtcTimestamp(secs) == secs * TicksPerSec

\* ------------------------------------------------------------- SQL pieces
RECURSIVE SumAmounts(_)
SumAmounts(rows) == IF rows = <<>> THEN 0 ELSE Head(rows).amount + SumAmounts(Tail(rows))

\* SUM(amount): NULL over no rows
SUM(rows) == IF rows = <<>> THEN NULL ELSE Some(SumAmounts(rows))

RECURSIVE SumSet(_)
SumSet(S) == IF S = {} THEN 0 ELSE LET r == CHOOSE x \in S : TRUE IN r.amount + SumSet(S \ {r})

AsShafter(id) == SelectSeq(transactions, LAMBDA r : r.shafter = id)

AsShaftee(id) == SelectSeq(transactions, LAMBDA r : r.shaftee = id)

\* ------------------------------------------------- uniqueness constraints
\* users(user_id PRIMARY KEY, ...)
UsersKeyFree(id) == \A r \in BagToSet(users) : r.user_id # id

\* github_users: one link per external id
GithubIdFree(id) == \A r \in BagToSet(github_users) : r.github_id # id

\* tokens: the token string is unique
TokenFree(t) == \A r \in BagToSet(tokens) : r.token # t

\* ----------------------------------------------------------------- queries
\* SELECT user_id FROM github_users WHERE github_id = $1
GithubUserRows(id) == {r.user_id : r \in {x \in BagToSet(github_users) : x.github_id = id}}

\* SELECT user_id FROM users WHERE user_id = $1  ... .len()
UserExists(id) == BagCardinality(Where(users, "user_id", id))

\* mutant: the shaftee side of the balance is left out
BalanceRowsShafterOnly(user) == <<Coalesce(SUM(AsShafter(user)), 0)>>

\* mutant: the two sides of the balance are added
BalanceRowsAdded(user) == <<Coalesce(SUM(AsShafter(user)), 0) + Coalesce(SUM(AsShaftee(user)), 0)>>

\* SELECT (SELECT COALESCE(SUM(amount), 0) ... shafter = $1)
\*      - (SELECT COALESCE(SUM(amount), 0) ... shaftee = $1)
BalanceRows(user) == <<Coalesce(SUM(AsShafter(user)), 0) - Coalesce(SUM(AsShaftee(user)), 0)>>

\* SELECT shafter AS user_id, SUM(amount) AS amount FROM transactions GROUP BY shafter
ShafterSums == {[user_id |-> id, amount |-> SumAmounts(AsShafter(id)), side |-> "shafter"] : id \in {r.shafter : r \in Range(transactions)}}

\* mutant: the shaftee sums are not negated
ShafteeSumsNotNegated == {[user_id |-> id, amount |-> SumAmounts(AsShaftee(id)), side |-> "shaftee"] : id \in {r.shaftee : r \in Range(transactions)}}

\* SELECT shaftee AS user_id, -SUM(amount) AS amount FROM transactions GROUP BY shaftee
ShafteeSums == {[user_id |-> id, amount |-> 0 - SumAmounts(AsShaftee(id)), side |-> "shaftee"] : id \in {r.shaftee : r \in Range(transactions)}}

\* ... UNION ALL ... (the side field keeps equal rows of the two branches apart)
UnionAll == ShafterSums \cup ShafteeSums

\* SELECT user_id, SUM(amount) as balance FROM (...) t GROUP BY user_id
BalanceTable == [id \in {r.user_id : r \in UnionAll} |-> SumSet({r \in UnionAll : r.user_id = id})]

\* LEFT JOIN (...) USING (user_id), COALESCE(balance, 0)
JoinedBalance(id) == Coalesce(IF id \in DOMAIN BalanceTable THEN Some(BalanceTable[id]) ELSE NULL, 0)

\* users LEFT JOIN balances: one row per users row
UserRow(u) == User(u.user_id, u.display_name, JoinedBalance(u.user_id))

\* mutant: the join of tokens and users does not compare user_id
TokenUserRowsAnyUser(token) == {UserRow(u) : u \in {x \in BagToSet(users) : \E t \in BagToSet(tokens) : t.token = token}}

\* tokens INNER JOIN users USING (user_id) LEFT JOIN ... WHERE token = $1
TokenUserRows(token) == {UserRow(u) : u \in {x \in BagToSet(users) : \E t \in BagToSet(tokens) : t.token = token /\ t.user_id = x.user_id}}

\* .iter().next() of a result whose row order the query leaves open
FirstOf(rows) == IF rows = {} THEN {NULL} ELSE {Some(r) : r \in rows}

Injections(n) == {p \in [1..n -> 1..n] : \A i, j \in 1..n : p[i] = p[j] => i = j}

\* mutant: no ORDER BY
Unordered(rows) == {[i \in 1..Len(rows) |-> rows[p[i]]] : p \in Injections(Len(rows))}

\* ORDER BY balance ASC: every order of the rows that is ascending in balance
OrderByBalance(rows) == {[i \in 1..Len(rows) |-> rows[p[i]]] : p \in {q \in Injections(Len(rows)) : \A i, j \in 1..Len(rows) : i < j => rows[q[i]].balance <= rows[q[j]].balance}}

\* FROM users LEFT JOIN (...) USING (user_id) ORDER BY balance ASC
AllUsersRows == UNION {OrderByBalance([i \in DOMAIN s |-> UserRow(s[i])]) : s \in RowOrders(users)}

\* LinearMap::insert: replace the value of a present key in place, else push
LinearMapInsert(m, k, v) == IF \E i \in DOMAIN m : m[i].key = k THEN [i \in DOMAIN m |-> IF m[i].key = k THEN [key |-> k, value |-> v] ELSE m[i]] ELSE Append(m, [key |-> k, value |-> v])

\* .map(|row| (row.get(0), User {...})).collect::<LinearMap<_, _>>()
RECURSIVE CollectLinearMap(_, _)
CollectLinearMap(m, rows) == IF rows = <<>> THEN m ELSE CollectLinearMap(LinearMapInsert(m, Head(rows).user_id, Head(rows)), Tail(rows))

\* mutant: ORDER BY id ASC
MinId(rows) == CHOOSE r \in rows : \A x \in rows : r.id <= x.id

MaxId(rows) == CHOOSE r \in rows : \A x \in rows : x.id <= r.id

\* ORDER BY id DESC LIMIT $1
RECURSIVE OrderByIdDescLimit(_, _)
OrderByIdDescLimit(rows, limit) == IF limit = 0 \/ rows = {} THEN <<>> ELSE <<MaxId(rows)>> \o OrderByIdDescLimit(rows \ {MaxId(rows)}, limit - 1)

\* .map(|row| Transaction {...})
RowToTransaction(r) == Transaction(r.shafter, r.shaftee, r.amount, UtcTimestamp(r.time_sec), r.reason)

LastTransactions(limit) == LET rows == OrderByIdDescLimit(Range(transactions), limit) IN [i \in 1..Len(rows) |-> RowToTransaction(rows[i])]

\* mutant: the INSERT binds shafter and shaftee the other way round
TransactionRowSwapped(t) == [id |-> Len(transactions) + 1, shafter |-> t.shaftee, shaftee |-> t.shafter, amount |-> t.amount, time_sec |-> Timestamp(t.datetime), reason |-> t.reason]

\* INSERT INTO transactions (shafter, shaftee, amount, time_sec, reason); id SERIAL
TransactionRow(t) == [id |-> Len(transactions) + 1, shafter |-> t.shafter, shaftee |-> t.shaftee, amount |-> t.amount, time_sec |-> Timestamp(t.datetime), reason |-> t.reason]

\* INSERT INTO github_users (user_id, github_id) VALUES ($1, $1)
GithubUserRow(id) == [user_id |-> id, github_id |-> id]

\* INSERT INTO users (user_id, display_name) VALUES ($1, $2)
UsersRow(id, name) == [user_id |-> id, display_name |-> name]

\* INSERT INTO tokens (user_id, token) VALUES ($1, $2)
TokenRow(id, t) == [user_id |-> id, token |-> t]

\* mutant: the DELETE takes the tokens of the same user along
DeleteTokenRowsOfUser(t) == [r \in {y \in BagToSet(tokens) : \A x \in BagToSet(tokens) : x.token = t => x.user_id # y.user_id} |-> tokens[r]]

\* mutant: the DELETE has no WHERE clause
DeleteTokenRowsAll(t) == EmptyBag

\* DELETE FROM tokens WHERE token = $1
DeleteTokenRows(t) == WhereNot(tokens, "token", t)

\* ------------------------------------------------------- units of work
Unit == <<>>

\* the requests over given sets of arguments
RequestsOver(ids, people, toks, txs, limits) == {[op |-> "get_user_by_github_id", github_user_id |-> i] : i \in ids}
    \cup {[op |-> "add_user_by_github_id", github_user_id |-> p[1], display_name |-> p[2]] : p \in people}
    \cup {[op |-> "create_token_for_user", user_id |-> i] : i \in ids}
    \cup {[op |-> "delete_token", token |-> t] : t \in toks}
    \cup {[op |-> "get_user_from_token", token |-> t] : t \in toks}
    \cup {[op |-> "get_balance_for_user", user |-> i] : i \in ids}
    \cup {[op |-> "get_all_users"]}
    \cup {[op |-> "shaft_user", transaction |-> t] : t \in txs}
    \cup {[op |-> "get_last_transactions", limit |-> l] : l \in limits}

People == {<<"u1", "n1">>, <<"u2", "n2">>}

Transactions == {Transaction(sr, se, a, dt, rs) : sr \in Ids, se \in Ids, a \in Amounts, dt \in Datetimes, rs \in Reasons}

\* what the single caller of SpecSeq asks for
Requests == RequestsOver(Ids, People, Tokens, Transactions, 0..MaxLimit)

\* what the concurrent callers of Spec ask for
ConcurrentRequests == RequestsOver({"u1"}, {<<"u1", "n1">>}, Tokens, {Transaction("u2", "u1", 2, TicksPerSec + 1, "r")}, {0, MaxLimit})

NoRequest == [op |-> "none"]

\* the connections of the pool built by with_manager
Conns == 1..capacity

\* mutant: the pool hands out a connection whether or not a unit holds it
AnyConns == Conns

\* connections of the pool that no unit holds
IdleConns == {c \in Conns : \A u \in Units : conn[u] # c}

InFlight(op) == {u \in Units : pc[u] \notin {"idle", "done"} /\ req[u].op = op}

\* first statement of the closure, after db_pool.get()
FirstStatement(op) == CASE op = "add_user_by_github_id" -> "insert_github" [] op = "shaft_user" -> "check_user" [] OTHER -> "query"

Statements == {"query", "insert_github", "insert_users", "check_user", "insert_transaction"}

\* mutant: the connection is kept after the closure has returned
Leak(u) == conn

\* the connection guard is dropped when the closure returns
Release(u) == [conn EXCEPT ![u] = 0]

\* the closure returns r: the future resolves and the connection goes back
Finish(u, r) ==
    /\ pc' = [pc EXCEPT ![u] = "done"]
    /\ result' = [result EXCEPT ![u] = r]
    /\ conn' = Release(u)
    /\ UNCHANGED <<req, capacity, instance>>

\* the closure goes on to its next statement
Goto(u, label) ==
    /\ pc' = [pc EXCEPT ![u] = label]
    /\ UNCHANGED <<req, result, conn, capacity, instance>>

Init ==
    /\ github_users = EmptyBag
    /\ users = EmptyBag
    /\ tokens = EmptyBag
    /\ transactions = <<>>
    /\ pc = [u \in Units |-> "idle"]
    /\ req = [u \in Units |-> NoRequest]
    /\ result = [u \in Units |-> NoResult]
    /\ conn = [u \in Units |-> 0]
    /\ capacity \in 1..MaxPool
    /\ instance = "built"

\* cpu_pool.spawn_fn(closure): the caller hands a unit of work to the pool
Submit(u, r) ==
    /\ instance = "built"
    /\ pc[u] \in {"idle", "done"}
    /\ r.op = "shaft_user" => Len(transactions) + Cardinality(InFlight("shaft_user")) < MaxLedger
    /\ pc' = [pc EXCEPT ![u] = "acquire"]
    /\ req' = [req EXCEPT ![u] = r]
    /\ result' = [result EXCEPT ![u] = NoResult]
    /\ UNCHANGED <<tables, conn, capacity, instance>>

\* db_pool.get() hands out an idle connection
Acquire(u) ==
    /\ pc[u] = "acquire"
    /\ \E c \in IdleConns : conn' = [conn EXCEPT ![u] = c]
    /\ pc' = [pc EXCEPT ![u] = FirstStatement(req[u].op)]
    /\ UNCHANGED <<tables, req, result, capacity, instance>>

\* mutant: the pool error is swallowed and the operation reports success
AcquireFailSwallowed(u) ==
    /\ pc[u] = "acquire"
    /\ Finish(u, Ok(Unit))
    /\ UNCHANGED tables

\* db_pool.get() fails: .context(ConnectionPoolError)?
AcquireFail(u) ==
    /\ pc[u] = "acquire"
    /\ Finish(u, Err(ConnectionPoolError))
    /\ UNCHANGED tables

\* the statement at hand fails in the backend: .context(PostgresError)?
StatementFail(u) ==
    /\ pc[u] \in Statements
    /\ Finish(u, Err(PostgresError))
    /\ UNCHANGED tables

GetUserByGithubId(u) ==
    /\ pc[u] = "query"
    /\ req[u].op = "get_user_by_github_id"
    /\ \E row \in FirstOf(GithubUserRows(req[u].github_user_id)) : Finish(u, Ok(row))
    /\ UNCHANGED tables

\* mutant: the error of the first insert is dropped
AddUserInsertGithubUnchecked(u) ==
    /\ pc[u] = "insert_github"
    /\ github_users' = IF GithubIdFree(req[u].github_user_id) THEN Insert(github_users, GithubUserRow(req[u].github_user_id)) ELSE github_users
    /\ Goto(u, "insert_users")
    /\ UNCHANGED <<users, tokens, transactions>>

AddUserInsertGithub(u) ==
    /\ pc[u] = "insert_github"
    /\ IF GithubIdFree(req[u].github_user_id)
       THEN /\ github_users' = Insert(github_users, GithubUserRow(req[u].github_user_id))
            /\ Goto(u, "insert_users")
       ELSE /\ Finish(u, Err(PostgresError))
            /\ UNCHANGED github_users
    /\ UNCHANGED <<users, tokens, transactions>>

AddUserInsertUsers(u) ==
    /\ pc[u] = "insert_users"
    /\ IF UsersKeyFree(req[u].github_user_id)
       THEN /\ users' = Insert(users, UsersRow(req[u].github_user_id, req[u].display_name))
            /\ Finish(u, Ok(req[u].github_user_id))
       ELSE /\ Finish(u, Err(PostgresError))
            /\ UNCHANGED users
    /\ UNCHANGED <<github_users, tokens, transactions>>

CreateTokenForUser(u) ==
    /\ pc[u] = "query"
    /\ req[u].op = "create_token_for_user"
    /\ \E token \in Tokens :
         IF TokenFree(token)
         THEN /\ tokens' = Insert(tokens, TokenRow(req[u].user_id, token))
              /\ Finish(u, Ok(token))
         ELSE /\ Finish(u, Err(PostgresError))
              /\ UNCHANGED tokens
    /\ UNCHANGED <<github_users, users, transactions>>

DeleteToken(u) ==
    /\ pc[u] = "query"
    /\ req[u].op = "delete_token"
    /\ tokens' = DeleteTokenRows(req[u].token)
    /\ Finish(u, Ok(Unit))
    /\ UNCHANGED <<github_users, users, transactions>>

GetUserFromToken(u) ==
    /\ pc[u] = "query"
    /\ req[u].op = "get_user_from_token"
    /\ \E row \in FirstOf(TokenUserRows(req[u].token)) : Finish(u, Ok(row))
    /\ UNCHANGED tables

\* .iter().next().map(|row| row.get(0)).ok_or_else(|| UnknownUser {..})
BalanceResult(user) == LET first == FirstRow(BalanceRows(user)) IN IF first = NULL THEN Err(UnknownUser(user)) ELSE Ok(first[1])

GetBalanceForUser(u) ==
    /\ pc[u] = "query"
    /\ req[u].op = "get_balance_for_user"
    /\ Finish(u, BalanceResult(req[u].user))
    /\ UNCHANGED tables

GetAllUsers(u) ==
    /\ pc[u] = "query"
    /\ req[u].op = "get_all_users"
    /\ \E rows \in AllUsersRows : Finish(u, Ok(CollectLinearMap(<<>>, rows)))
    /\ UNCHANGED tables

\* mutant: the existence check does not stop the operation
ShaftUserCheckIgnored(u) ==
    /\ pc[u] = "check_user"
    /\ Goto(u, "insert_transaction")
    /\ UNCHANGED tables

ShaftUserCheck(u) ==
    /\ pc[u] = "check_user"
    /\ IF UserExists(req[u].transaction.shaftee) = 0
       THEN Finish(u, Err(UnknownUser(req[u].transaction.shaftee)))
       ELSE Goto(u, "insert_transaction")
    /\ UNCHANGED tables

\* conn.prepare(INSERT ...) and stmt.execute(...)
ShaftUserInsert(u) ==
    /\ pc[u] = "insert_transaction"
    /\ transactions' = Append(transactions, TransactionRow(req[u].transaction))
    /\ Finish(u, Ok(Unit))
    /\ UNCHANGED <<github_users, users, tokens>>

GetLastTransactions(u) ==
    /\ pc[u] = "query"
    /\ req[u].op = "get_last_transactions"
    /\ Finish(u, Ok(LastTransactions(req[u].limit)))
    /\ UNCHANGED tables

Step(u) ==
    \/ Acquire(u)
    \/ AcquireFail(u)
    \/ StatementFail(u)
    \/ GetUserByGithubId(u)
    \/ AddUserInsertGithub(u)
    \/ AddUserInsertUsers(u)
    \/ CreateTokenForUser(u)
    \/ DeleteToken(u)
    \/ GetUserFromToken(u)
    \/ GetBalanceForUser(u)
    \/ GetAllUsers(u)
    \/ ShaftUserCheck(u)
    \/ ShaftUserInsert(u)
    \/ GetLastTransactions(u)

Next == \E u \in Units : (\E r \in ConcurrentRequests : Submit(u, r)) \/ Step(u)

Spec == Init /\ [][Next]_vars

Caller == "w1"

NextSeq == (\E r \in Requests : Submit(Caller, r)) \/ Step(Caller)

InitSeq ==
    /\ Init
    /\ capacity = 1

SpecSeq == InitSeq /\ [][NextSeq]_vars

\* worker threads that are scheduled fairly: a closure that can take a step
\* takes one.  A step is always possible for a unit that has been submitted
\* and has not ended: db_pool.get() returns a connection or the pool's error,
\* and a statement returns its rows or the backend's error.
Fairness == \A u \in Units : WF_vars(Step(u))

\* what the callers of SpecFair ask for: every operation, one argument each
FairRequests == RequestsOver({"u1"}, {<<"u1", "n1">>}, {"t1"}, {Transaction("u2", "u1", 2, TicksPerSec + 1, "r")}, {MaxLimit})

NextFair == \E u \in Units : (\E r \in FairRequests : Submit(u, r)) \/ Step(u)

SpecFair == Init /\ [][NextFair]_vars /\ Fairness

\* the caller drops the future that spawn_fn(..).compat().boxed() returned.
\* The CpuFuture is handed out without forget(): dropping it cancels a closure
\* that no worker thread has started, which then never runs; a closure that a
\* worker thread has started (it may still wait in db_pool.get()) runs on.
DropFuture(u) ==
    /\ pc[u] \notin {"idle", "done"}
    /\ \/ /\ pc[u] = "acquire"
          /\ pc' = [pc EXCEPT ![u] = "idle"]
          /\ req' = [req EXCEPT ![u] = NoRequest]
          /\ UNCHANGED <<tables, result, conn, capacity, instance>>
       \/ UNCHANGED vars

NextDrop == Next \/ \E u \in Units : DropFuture(u)

\* callers that may drop the futures they hold
SpecDrop == Init /\ [][NextDrop]_vars

\* before PostgresDatabase::with_manager is called
InitBuild ==
    /\ github_users = EmptyBag
    /\ users = EmptyBag
    /\ tokens = EmptyBag
    /\ transactions = <<>>
    /\ pc = [u \in Units |-> "idle"]
    /\ req = [u \in Units |-> NoRequest]
    /\ result = [u \in Units |-> NoResult]
    /\ conn = [u \in Units |-> 0]
    /\ capacity = 0
    /\ instance = "unbuilt"

\* with_manager: r2d2::Pool::new(manager).unwrap() either gives the pool or,
\* when the pool cannot be built, panics
WithManager ==
    /\ instance = "unbuilt"
    /\ \/ instance' = "built" /\ capacity' \in 1..MaxPool
       \/ instance' = "panicked" /\ UNCHANGED capacity
    /\ UNCHANGED <<tables, pc, req, result, conn>>

NextBuild == WithManager \/ Next

\* the storage layer from its construction on
SpecBuild == InitBuild /\ [][NextBuild]_vars

\* ------------------------------------------------------------------ claims
\* a unit of work that has returned from the given operation
Returned(u, op) == pc[u] = "done" /\ req[u].op = op

\* the unit takes a step out of the statement it is at
Leaves(u, label) == pc[u] = label /\ pc'[u] # label

\* the balance of a user, entry by entry over the first n ledger entries
RECURSIVE LedgerBalance(_, _)
LedgerBalance(id, n) == IF n = 0 THEN 0 ELSE LedgerBalance(id, n - 1) + (IF transactions[n].shafter = id THEN transactions[n].amount ELSE 0) - (IF transactions[n].shaftee = id THEN transactions[n].amount ELSE 0)

InfrastructureErrors == {Err(ConnectionPoolError), Err(PostgresError)}

\* C1: whenever get-balance(U) has returned without a pool or query error, its
\* result is the sum of the amounts of all ledger entries with shafter = U minus
\* the sum of the amounts of all ledger entries with shaftee = U (0 for a
\* missing sum).
C1_BalanceIsLedgerSum == \A u \in Units : Returned(u, "get_balance_for_user") => result[u] \in {Ok(LedgerBalance(req[u].user, Len(transactions)))} \cup InfrastructureErrors

\* C1 witness: get-balance has returned a non-zero balance for a user that is
\* shafter of one ledger entry and shaftee of another.
C1_Witness == \E u \in Units : Returned(u, "get_balance_for_user") /\ result[u].kind = "Ok" /\ result[u].val # 0 /\ AsShafter(req[u].user) # <<>> /\ AsShaftee(req[u].user) # <<>>

\* C2 (as claimed): get-balance(U) for a U without a users row never returns an
\* integer: it fails (with UnknownUser, or a pool or query error).
C2_UnknownUserHasNoBalance == \A u \in Units : (Returned(u, "get_balance_for_user") /\ UserExists(req[u].user) = 0) => result[u] \in {Err(UnknownUser(req[u].user))} \cup InfrastructureErrors

\* C3: when record-transaction runs its existence check and the shaftee has no
\* users row, that step ends the operation, changes none of the four tables,
\* and its result is UnknownUser carrying the shaftee id (unless the backend
\* fails the statement, which gives the query error).
C3_UnknownShafteeLeavesLedger == [][\A u \in Units : (Leaves(u, "check_user") /\ UserExists(req[u].transaction.shaftee) = 0) => (pc'[u] = "done" /\ UNCHANGED tables /\ (result'[u] = Err(UnknownUser(req[u].transaction.shaftee)) \/ StatementFail(u)))]_vars

\* C3 witness: record-transaction has returned UnknownUser for its shaftee
\* while another unit has recorded a transaction.
C3_Witness == \E u \in Units : Returned(u, "shaft_user") /\ result[u] = Err(UnknownUser(req[u].transaction.shaftee)) /\ Len(transactions) > 0

\* the User that authenticate-token and the listing are to report for a users row
ExpectedUser(usr) == User(usr.user_id, usr.display_name, LedgerBalance(usr.user_id, Len(transactions)))

\* C4: (a) when issue-token(U) returns token t, the row (U, t) is stored;
\* (b) a stored token row goes away only in a step in which revoke-token of
\* that token returns success; (c) whenever authenticate-token(t) runs its
\* query while a row (U, t) is stored and U has a users row, it returns the
\* User with U's id, U's display name and U's ledger balance at that moment
\* (unless the backend fails the statement).
C4_IssuedTokenAuthenticates == [][\A u \in Units :
    /\ (Leaves(u, "query") /\ req[u].op = "create_token_for_user" /\ result'[u].kind = "Ok") => BagIn(TokenRow(req[u].user_id, result'[u].val), tokens')
    /\ \A row \in BagToSet(tokens) : ~BagIn(row, tokens') => \E v \in Units : Leaves(v, "query") /\ req[v] = [op |-> "delete_token", token |-> row.token] /\ result'[v] = Ok(Unit)
    /\ (Leaves(u, "query") /\ req[u].op = "get_user_from_token") => \A row \in BagToSet(tokens) : \A usr \in BagToSet(users) : (row.token = req[u].token /\ usr.user_id = row.user_id) => (result'[u] = Ok(Some(ExpectedUser(usr))) \/ StatementFail(u))]_vars

\* C4 witness: with two users stored, authenticate-token has returned the
\* owner of a stored token, with a non-zero balance.
C4_Witness == \E u \in Units : Returned(u, "get_user_from_token") /\ result[u].kind = "Ok" /\ result[u].val # NULL /\ result[u].val[1].balance # 0 /\ BagCardinality(users) = 2 /\ BagIn(TokenRow(result[u].val[1].user_id, req[u].token), tokens)

\* C5: (a) a step in which revoke-token(t) returns success removes every row
\* with token t and keeps every other token row, and every other token whose
\* user has a users row still authenticates to that user afterwards; (b) a row
\* with token t appears only in a step in which issue-token returns t; (c)
\* whenever authenticate-token(t) runs its query while no row with token t is
\* stored, it returns "not found" (unless the backend fails the statement).
C5_RevokedTokenNotFound == [][\A u \in Units :
    /\ (Leaves(u, "query") /\ req[u].op = "delete_token" /\ result'[u] = Ok(Unit)) =>
        /\ \A row \in BagToSet(tokens) \cup BagToSet(tokens') : CopiesIn(row, tokens') = IF row.token = req[u].token THEN 0 ELSE CopiesIn(row, tokens)
        /\ \A row \in BagToSet(tokens) : \A usr \in BagToSet(users) : (row.token # req[u].token /\ usr.user_id = row.user_id) => (FirstOf(TokenUserRows(row.token)))' = {Some(ExpectedUser(usr))}
    /\ \A row \in BagToSet(tokens') : ~BagIn(row, tokens) => \E v \in Units : Leaves(v, "query") /\ req[v].op = "create_token_for_user" /\ result'[v] = Ok(row.token)
    /\ (Leaves(u, "query") /\ req[u].op = "get_user_from_token" /\ TokenFree(req[u].token)) => (result'[u] = Ok(NULL) \/ StatementFail(u))]_vars

\* C5 witness: revoke-token(t) has returned success, authenticate-token(t) has
\* returned "not found", and another token of a stored user is still live.
C5_Witness == \E u, v \in Units : Returned(u, "delete_token") /\ result[u] = Ok(Unit) /\ Returned(v, "get_user_from_token") /\ req[v].token = req[u].token /\ result[v] = Ok(NULL) /\ \E row \in BagToSet(tokens) : row.token # req[u].token /\ UserExists(row.user_id) = 1

\* C6: whenever list-users-with-balances has returned a collection, it has one
\* entry per users row, each entry is the User of its row with the row's ledger
\* balance (0 for a user in no ledger entry), and the balances are
\* non-decreasing along the collection.
C6_ListIsCompleteAndAscending == \A u \in Units : Returned(u, "get_all_users") => \/ result[u] \in InfrastructureErrors
    \/ /\ result[u].kind = "Ok"
       /\ Len(result[u].val) = BagCardinality(users)
       /\ \A usr \in BagToSet(users) : Cardinality({i \in DOMAIN result[u].val : result[u].val[i].key = usr.user_id}) = 1
       /\ \A i \in DOMAIN result[u].val : \E usr \in BagToSet(users) : result[u].val[i].key = usr.user_id /\ result[u].val[i].value = ExpectedUser(usr)
       /\ \A i \in DOMAIN result[u].val : (AsShafter(result[u].val[i].key) = <<>> /\ AsShaftee(result[u].val[i].key) = <<>>) => result[u].val[i].value.balance = 0
       /\ \A i, j \in DOMAIN result[u].val : i < j => result[u].val[i].value.balance <= result[u].val[j].value.balance

\* C6 witness: the listing has returned two users, the first with a negative
\* and the second with a positive balance.
C6_Witness == \E u \in Units : Returned(u, "get_all_users") /\ result[u].kind = "Ok" /\ Len(result[u].val) = 2 /\ result[u].val[1].value.balance < 0 /\ result[u].val[2].value.balance > 0

\* C7: the balance of a user is the same through the three read paths:
\* whenever the listing has returned, the balance in each of its entries is
\* what get-balance gives for that user in the same state of the store, and
\* whenever authenticate-token has returned a User, its balance is what
\* get-balance gives for that user.
C7_ReadPathsAgree == \A u \in Units :
    /\ (Returned(u, "get_all_users") /\ result[u].kind = "Ok") => \A i \in DOMAIN result[u].val : BalanceResult(result[u].val[i].key) = Ok(result[u].val[i].value.balance)
    /\ (Returned(u, "get_user_from_token") /\ result[u].kind = "Ok" /\ result[u].val # NULL) => BalanceResult(result[u].val[1].user_id) = Ok(result[u].val[1].balance)

\* C7 witness: the listing has returned two users with different balances, the
\* first of them is shafter of one ledger entry and shaftee of another, and
\* get-balance gives the listed balance for it.
C7_Witness == \E u \in Units : Returned(u, "get_all_users") /\ result[u].kind = "Ok" /\ Len(result[u].val) = 2 /\ result[u].val[1].value.balance # result[u].val[2].value.balance /\ AsShafter(result[u].val[1].key) # <<>> /\ AsShaftee(result[u].val[1].key) # <<>> /\ BalanceResult(result[u].val[1].key) = Ok(result[u].val[1].value.balance)

Min(a, b) == IF a < b THEN a ELSE b

\* the n most recent ledger entries, the most recent first
MostRecent(n) == [i \in 1..Min(n, Len(transactions)) |-> RowToTransaction(transactions[Len(transactions) + 1 - i])]

\* C8: the step in which list-recent-transactions(n) runs its query changes no
\* table and (unless the backend fails the statement) returns the
\* min(n, ledger length) most recent ledger entries, the most recent first;
\* the result is a function of n and the ledger alone, and is empty for n = 0.
C8_RecentTransactions == [][\A u \in Units : (Leaves(u, "query") /\ req[u].op = "get_last_transactions") => (UNCHANGED tables /\ (result'[u] = Ok(MostRecent(req[u].limit)) \/ StatementFail(u)) /\ (req[u].limit = 0 => result'[u] \in {Ok(<<>>), Err(PostgresError)}))]_vars

\* C8 witness: with two different entries in the ledger,
\* list-recent-transactions(1) has returned the later one alone.
C8_Witness == \E u \in Units : Returned(u, "get_last_transactions") /\ req[u].limit = 1 /\ Len(transactions) = 2 /\ RowToTransaction(transactions[1]) # RowToTransaction(transactions[2]) /\ result[u] = Ok(<<RowToTransaction(transactions[2])>>)

\* no external id with two identity links, no user_id with two users rows
NoDuplicates == \A id \in Ids : BagCardinality(Where(github_users, "github_id", id)) <= 1 /\ BagCardinality(Where(users, "user_id", id)) <= 1

\* C9: when create-user-by-external-id reaches its first insert and the
\* external id already has an identity link, the operation ends there with the
\* query error and changes no table; and no step ever leaves an external id
\* with two identity links or a user_id with two users rows.
C9_DuplicateExternalIdFails == [][NoDuplicates' /\ \A u \in Units : (Leaves(u, "insert_github") /\ ~GithubIdFree(req[u].github_user_id)) => (pc'[u] = "done" /\ result'[u] = Err(PostgresError) /\ UNCHANGED tables)]_vars

\* C9 witness: one create-user-by-external-id has returned the new id, another
\* one for the same external id has returned the query error, and the id has
\* one identity link and one users row.
C9_Witness == \E u, v \in Units : Returned(u, "add_user_by_github_id") /\ result[u] = Ok(req[u].github_user_id) /\ Returned(v, "add_user_by_github_id") /\ req[v].github_user_id = req[u].github_user_id /\ result[v] = Err(PostgresError) /\ UserExists(req[u].github_user_id) = 1 /\ GithubUserRows(req[u].github_user_id) # {}

CheckedOut == {c \in Conns : \E u \in Units : conn[u] = c}

\* C10 (as claimed): the number of checked-out connections equals the number
\* of units of work that were submitted and have not completed.
C10_CheckedOutEqualsInProgress == Cardinality(CheckedOut) = Cardinality({u \in Units : pc[u] \notin {"idle", "done"}})

\* C10 (amended): a unit of work that has completed, with whatever result,
\* holds no connection; a unit holds a connection exactly while it is at one of
\* its statements, so the number of checked-out connections equals the number
\* of units that have acquired a connection and not yet ended.
C10_ConnectionReleasedOnExit ==
    /\ \A u \in Units : pc[u] \in {"idle", "done", "acquire"} <=> conn[u] = 0
    /\ \A u \in Units : conn[u] # 0 => conn[u] \in Conns
    /\ Cardinality(CheckedOut) = Cardinality({u \in Units : pc[u] \in Statements})

\* C10 witness: one unit has ended with a query error and one with UnknownUser,
\* and no connection is checked out.
C10_Witness == \E u, v \in Units : pc[u] = "done" /\ result[u] = Err(PostgresError) /\ pc[v] = "done" /\ result[v].kind = "Err" /\ result[v].err.type = "UnknownUser" /\ CheckedOut = {}

\* C11: under any interleaving, a unit of work that is at one of its statements
\* holds one connection of the pool, the same one from the step in which
\* db_pool.get() returned it until the step in which the unit ends; no
\* connection is held by two units at once; and the number of checked-out
\* connections never exceeds the capacity of the pool.
C11_OneConnectionPerUnit == [][\A u \in Units :
    /\ pc'[u] \in Statements => conn'[u] \in Conns
    /\ (pc[u] \in Statements /\ pc'[u] \in Statements) => conn'[u] = conn[u]
    /\ \A v \in Units \ {u} : conn'[u] # 0 => conn'[v] # conn'[u]
    /\ Cardinality(CheckedOut') <= capacity]_vars

\* C11 witness: with a pool of one connection, one unit is at its second
\* statement holding the connection while the other waits in db_pool.get().
C11_Witness == \E u, v \in Units : capacity = 1 /\ pc[u] \in {"insert_users", "insert_transaction"} /\ conn[u] = 1 /\ pc[v] = "acquire" /\ conn[v] = 0

\* the place of a label in the order in which a closure runs
Rank(label) == CASE label = "idle" -> 0 [] label = "acquire" -> 1 [] label \in {"query", "insert_github", "check_user"} -> 2 [] label \in {"insert_users", "insert_transaction"} -> 3 [] label = "done" -> 4

\* C12: every failure is the result of the operation and is neither retried
\* nor swallowed.  (a) The step out of db_pool.get() either hands the unit a
\* connection, or ends the operation with the pool error, with no table
\* changed and no statement run.  (b) A unit never goes back to a statement it
\* has passed.  (c) The step in which a statement fails ends the operation
\* with that error, changes no table, and runs none of the statements after
\* it.  (d) An operation has a result exactly when it has ended, and the
\* result stays as delivered until the caller submits again.
C12_FailureIsTheResult == [][\A u \in Units :
    /\ Leaves(u, "acquire") =>
        \/ conn'[u] \in Conns /\ pc'[u] = FirstStatement(req[u].op) /\ UNCHANGED tables
        \/ pc'[u] = "done" /\ result'[u] = Err(ConnectionPoolError) /\ conn'[u] = 0 /\ UNCHANGED tables
    /\ (pc[u] \in Statements /\ pc'[u] # pc[u]) => Rank(pc'[u]) > Rank(pc[u])
    /\ (pc[u] \in Statements /\ result'[u].kind = "Err") => (pc'[u] = "done" /\ UNCHANGED tables /\ result'[u].err.type \in {"PostgresError", "UnknownUser"})
    /\ pc'[u] = "done" <=> result'[u] # NoResult
    /\ pc[u] = "done" => (pc'[u] \in {"done", "acquire"} /\ (pc'[u] = "done" => result'[u] = result[u]))]_vars

\* C12 witness: one create-user-by-external-id has ended with the pool error
\* and another with the query error at its second insert: the link is stored,
\* the users row is not.
C12_Witness == \E u, v \in Units : Returned(u, "add_user_by_github_id") /\ result[u] = Err(ConnectionPoolError) /\ Returned(v, "add_user_by_github_id") /\ result[v] = Err(PostgresError) /\ GithubUserRows(req[v].github_user_id) # {} /\ UserExists(req[v].github_user_id) = 0

\* C13 (as claimed): no pool or query failure ends in a panic: the storage
\* instance never panics, not even when the connection pool cannot be built at
\* construction, and every operation that has ended holds a success or an
\* error value.
C13_NoFailurePanics == instance # "panicked" /\ \A u \in Units : pc[u] = "done" => result[u].kind \in {"Ok", "Err"}

\* C14 (as claimed): a unit of work that has been submitted always runs: the
\* only steps that take it out of the dispatcher's hands are the step in which
\* it gets its connection and goes on to its first statement, and the step in
\* which it ends with a result, whether or not the caller still holds the
\* future.
C14_SubmittedUnitRuns == [][\A u \in Units : Leaves(u, "acquire") => (pc'[u] = FirstStatement(req[u].op) \/ (pc'[u] = "done" /\ result'[u] # NoResult))]_vars

\* C15: the step in which revoke-token(t) runs its DELETE ends the operation
\* with success whether or not a row with token t is stored (the only other
\* outcome is the backend failing the statement); on success every row with
\* token t is gone, every other token row is kept as it was, no row is added,
\* users, identity links and ledger are unchanged, and running the same
\* DELETE again would change nothing.
C15_RevokeIsIdempotent == [][\A u \in Units : (Leaves(u, "query") /\ req[u].op = "delete_token") =>
    /\ pc'[u] = "done"
    /\ result'[u] = Ok(Unit) \/ StatementFail(u)
    /\ result'[u] = Ok(Unit) =>
        /\ \A row \in BagToSet(tokens) \cup BagToSet(tokens') : CopiesIn(row, tokens') = IF row.token = req[u].token THEN 0 ELSE CopiesIn(row, tokens)
        /\ UNCHANGED <<github_users, users, transactions>>
        /\ (DeleteTokenRows(req[u].token))' = tokens']_vars

\* C15 witness: both units have revoked the same token with success, the
\* second of them at least when no row with it was stored, and the row of
\* another token is still stored.
C15_Witness == \E u, v \in Units : u # v /\ Returned(u, "delete_token") /\ result[u] = Ok(Unit) /\ Returned(v, "delete_token") /\ req[v].token = req[u].token /\ result[v] = Ok(Unit) /\ tokens # EmptyBag /\ TokenFree(req[u].token)

\* C16: the ledger is append-only under any interleaving of the nine
\* operations: a step either leaves the ledger as it is, or it is the step in
\* which a record-transaction returns success, and then the old entries stay
\* as they were and in their order, and exactly one entry is added at the end,
\* with the shafter, shaftee, amount and reason of the input and the input's
\* time cut to whole seconds; a record-transaction that returns success always
\* adds its entry.
C16_LedgerAppendOnly == [][
    /\ \/ transactions' = transactions
       \/ \E u \in Units :
            /\ Leaves(u, "insert_transaction") /\ req[u].op = "shaft_user" /\ result'[u] = Ok(Unit)
            /\ Len(transactions') = Len(transactions) + 1
            /\ SubSeq(transactions', 1, Len(transactions)) = transactions
            /\ LET row == transactions'[Len(transactions')]
                   tx == req[u].transaction
               IN /\ row.shafter = tx.shafter /\ row.shaftee = tx.shaftee /\ row.amount = tx.amount /\ row.reason = tx.reason
                  /\ row.time_sec * TicksPerSec <= tx.datetime /\ tx.datetime < (row.time_sec + 1) * TicksPerSec
                  /\ \A i \in DOMAIN transactions : transactions[i].id < row.id
    /\ \A u \in Units : (req[u].op = "shaft_user" /\ pc[u] # "done" /\ result'[u] = Ok(Unit)) => Len(transactions') = Len(transactions) + 1]_vars

\* C16 witness: both units have recorded a transaction with success and the
\* ledger holds their two entries, whose stored time is the whole second of the
\* input's time, which has a fraction.
C16_Witness == \E u, v \in Units : u # v /\ Returned(u, "shaft_user") /\ result[u] = Ok(Unit) /\ Returned(v, "shaft_user") /\ result[v] = Ok(Unit) /\ Len(transactions) = 2 /\ UtcTimestamp(transactions[2].time_sec) < req[v].transaction.datetime

\* C17 (as claimed): create-user-by-external-id is all-or-nothing: whenever the
\* operation has ended, with success or with a failure at either insert, an
\* identity link for its external id is stored exactly when a users row for it
\* is stored.
C17_CreateUserAllOrNothing == \A u \in Units : Returned(u, "add_user_by_github_id") => (GithubUserRows(req[u].github_user_id) # {} <=> UserExists(req[u].github_user_id) > 0)

\* C18: under any interleaving, no step removes or changes a users row, and
\* after every step the shaftee of every ledger entry has a users row; so the
\* gap between the existence check and the insert of record-transaction
\* cannot leave an entry whose shaftee is unknown.
C18_ShafteeHasUsersRow == [][
    /\ \A row \in BagToSet(users) : CopiesIn(row, users') >= CopiesIn(row, users)
    /\ (\A i \in DOMAIN transactions : UserExists(transactions[i].shaftee) >= 1)']_vars

\* C18 witness: one unit is between its existence check and its insert while
\* the other unit is at a statement of its own, and the ledger has an entry.
C18_Witness == \E u, v \in Units : u # v /\ pc[u] = "insert_transaction" /\ pc[v] \in Statements /\ Len(transactions) >= 1 /\ UserExists(req[u].transaction.shaftee) = 1

\* C19: with a pool of at least one connection and worker threads scheduled
\* fairly, every operation that has been submitted eventually ends with a
\* result; and no unit ever waits for a connection that cannot come back: a
\* unit that waits in db_pool.get() holds no connection, and every connection
\* that is checked out is held by a unit at one of its statements, which asks
\* for no further connection and gives its own back when it ends.
C19_EveryOperationCompletes ==
    /\ \A u \in Units : (pc[u] \notin {"idle", "done"}) ~> (pc[u] = "done" /\ result[u] # NoResult)
    /\ [](capacity >= 1 /\ \A u \in Units : (pc[u] = "acquire" => conn[u] = 0) /\ (conn[u] # 0 => pc[u] \in Statements /\ Rank(pc[u]) > Rank("acquire")))

\* C19 witness: with a pool of one connection, both units have been submitted,
\* one holds the connection and the other waits for it.
C19_Witness == \E u, v \in Units : capacity = 1 /\ pc[u] = "acquire" /\ pc[v] \in Statements /\ conn[v] = 1 /\ IdleConns = {} /\ req[u].op = "shaft_user" /\ req[v].op = "shaft_user"

\* the ids that occur in the ledger, as shafter or as shaftee
LedgerIds == {r.shafter : r \in Range(transactions)} \cup {r.shaftee : r \in Range(transactions)}

\* the balances that get-balance derives, summed over a set of ids
RECURSIVE SumBalances(_)
SumBalances(S) == IF S = {} THEN 0 ELSE LET id == CHOOSE x \in S : TRUE IN BalanceRows(id)[1] + SumBalances(S \ {id})

\* C20: the ledger is zero-sum: after every step that changes the ledger
\* (which starts empty) the derived balances of the ids that occur in it sum
\* to 0, so they do in every reachable state; and the step in which a
\* record-transaction with amount a returns success raises the balance of its
\* shafter by a and lowers the balance of its shaftee by a (no change when
\* they are the same id) and leaves every other balance as it was, in the
\* balance query as well as in the aggregate of the listing.
C20_LedgerZeroSum == [][
    /\ transactions' # transactions => (SumBalances(LedgerIds) = 0)'
    /\ \A u \in Units : (Leaves(u, "insert_transaction") /\ result'[u] = Ok(Unit)) =>
        \A id \in Ids :
            LET tx == req[u].transaction
                delta == (IF id = tx.shafter THEN tx.amount ELSE 0) - (IF id = tx.shaftee THEN tx.amount ELSE 0)
            IN /\ (BalanceRows(id)[1])' = BalanceRows(id)[1] + delta
               /\ (JoinedBalance(id))' = JoinedBalance(id) + delta
               /\ tx.shafter = tx.shaftee => (BalanceRows(id))' = BalanceRows(id)]_vars

\* C20 witness: the ledger holds an entry whose shafter is its shaftee and an
\* entry between two different ids, recorded with success, and the balances
\* of those two ids are not 0.
C20_Witness == \E u \in Units : Returned(u, "shaft_user") /\ result[u] = Ok(Unit) /\ Len(transactions) = 2 /\ transactions[1].shafter = transactions[1].shaftee /\ transactions[2].shafter # transactions[2].shaftee /\ BalanceRows(transactions[2].shafter)[1] # 0 /\ BalanceRows(transactions[2].shaftee)[1] # 0
====
